---- MODULE Spec2Model ----
(***************************************************************************)
(* Model of reflectivity_ui.interfaces.data_manager.DataManager: the cache *)
(* of loaded measurements, the reduction list, the direct beam list, the    *)
(* active selection and the direct beam matcher.                            *)
(*                                                                         *)
(* A measurement (NexusData) is an object of the heap; its identity is its  *)
(* index in heap, so indices grow in the order of construction.  A file     *)
(* path is the sequence of the run numbers of its '+'-joined files; a run   *)
(* identifier (NexusData.number, configuration.normalization) is such a     *)
(* sequence too, and it parses as an integer when it has one component.     *)
(***************************************************************************)
EXTENDS Integers, Sequences, FiniteSets, TLC

VARIABLES
    heap,               \* every NexusData constructed so far
    cache,              \* DataManager._cache
    reduction_list,     \* DataManager.reduction_list
    direct_beam_list,   \* DataManager.direct_beam_list
    reduction_states,   \* DataManager.reduction_states
    nexus_data,         \* DataManager._nexus_data
    active_channel,     \* DataManager.active_channel
    current_directory,  \* DataManager.current_directory
    current_file_name,  \* DataManager.current_file_name
    last,               \* the last call: its name, arguments and outcome
    batch               \* load_data_from_reduced_file in progress: its position

vars == <<heap, cache, reduction_list, direct_beam_list, reduction_states,
          nexus_data, active_channel, current_directory, current_file_name, last,
          batch>>

---------------------------------------------------------------------------
(* Bounds of the model *)

\* DataManager.MAX_CACHE is 50 in the source; the model runs with a smaller
\* capacity so that evictions happen within the explored depth.
MAX_CACHE == 2
\* Largest number of NexusData objects constructed in one behaviour.
MaxObj == 2
\* The same for the behaviours of the cache alone and of the reduction list.
MaxLoads == 3
MaxReduced == 3
\* Largest number of direct beam entries in the inputs of the matcher.
MaxBeams == 3
\* Largest number of NexusData objects in the behaviours of forced reloads.
MaxReload == 3
\* The same for the behaviours of the calculation inside load.
MaxCalc == 2
\* Largest number of data files listed in a reduced file.
MaxFiles == 2
\* Largest number of points of a direct beam intensity array.
MaxPoints == 5
\* Largest number of measurements in the inputs of strip_overlap.
MaxOverlap == 3
\* Largest number of channel labels in the inputs of determine_asymmetry_states.
MaxStates == 3
\* Largest number of loads in the runs about the direct beam list.
MaxNorm == 3
\* Largest number of measurements of a reduction list whose calculations
\* fail or succeed one by one in the runs about progress.
MaxGisans == 3
\* Largest number of measurements loaded in the runs about cache hits.
MaxHit == 3
\* Largest number of measurements loaded in the runs about eviction and reload.
MaxEvict == 4

---------------------------------------------------------------------------
(* Values *)

None == 0                                   \* no object / no index
NoChannel == [obj |-> 0, key |-> ""]        \* active_channel is None
NoId == << >>                               \* normalization is None
NoRun == 0                                  \* closest is None
\* no load_data_from_reduced_file call is in progress
NoBatch == [pc |-> "idle", files |-> << >>, n_loaded |-> 0]

\* Raw paths handed to load: two single files and both spellings of their merge.
RawPaths == { <<10>>, <<15>>, <<10, 15>>, <<15, 10>> }

\* What the Loader can find in a file: channel labels, scattering angle and
\* the geometry <<wavelength, slits>> the instrument compares.
KeySets == { << >>, <<"Off_Off">>, <<"On_On">>, <<"Off_Off", "On_On">> }
Thetas == {1, 2}
Geoms == { <<1, 1>>, <<1, 2>> }
LoaderOutputs == [keys : KeySets, two_theta : Thetas, geom : Geoms]
\* A file without channels and one with a channel
SomeOutputs == [keys : { << >>, <<"Off_Off">> }, two_theta : {1}, geom : { <<1, 1>> }]

Range(s) == { s[i] : i \in 1..Len(s) }
Abs(x) == IF x < 0 THEN -x ELSE x

\* list.pop(i), with i counted from 1
Pop(s, i) == SubSeq(s, 1, i - 1) \o SubSeq(s, i + 1, Len(s))
\* list.insert(i, x), with i counted from 1
Insert(s, i, x) == SubSeq(s, 1, i - 1) \o <<x>> \o SubSeq(s, i, Len(s))
\* the first index of x in s, or None
IndexOf(s, x) ==
    IF \E i \in 1..Len(s) : s[i] = x
    THEN CHOOSE i \in 1..Len(s) : s[i] = x /\ \A j \in 1..(i - 1) : s[j] # x
    ELSE None

---------------------------------------------------------------------------
(* FilePath(file_path, sort=True).path: the components sorted by run number *)

RECURSIVE SortedInsert(_, _)
SortedInsert(s, x) ==
    IF s = << >> THEN <<x>>
    ELSE IF x <= Head(s) THEN <<x>> \o s
    ELSE <<Head(s)>> \o SortedInsert(Tail(s), x)

RECURSIVE FilePath(_)
FilePath(raw) ==
    IF raw = << >> THEN << >>
    ELSE SortedInsert(FilePath(Tail(raw)), Head(raw))

\* NexusData.number: the run identifier of the measurement
Number(m) == m.file_path
\* int(x) succeeds
IsInt(id) == Len(id) = 1
\* int(x)
IntOf(id) == id[1]
\* RunNumbers(number).numbers[0]
FirstRun(id) == id[1]

\* CrossSectionData.cross_section_label of the channel with key k: the spin
\* states of the channel, written with + and -
cross_section_label(k) ==
    CASE k \in {"Off_Off", "off-off", "u"} -> "++"
      [] k \in {"On_On", "d"} -> "--"
      [] OTHER -> "+-"

\* A NexusData as the Loader leaves it: no normalization, no reflectivity
\* computed (q and r are None, written << >>), nothing cut at either end
NewNexusData(file_path, out) ==
    [file_path |-> file_path, keys |-> out.keys, two_theta |-> out.two_theta,
     geom |-> out.geom, normalization |-> NoId, q |-> << >>, r |-> << >>,
     cut_first_n_points |-> 0, cut_last_n_points |-> 0]

---------------------------------------------------------------------------
(* DataManager.set_channel: the channel it leaves active *)

set_channel(h, nd, index, ac) ==
    IF nd = None THEN ac
    ELSE IF index < Len(h[nd].keys) THEN [obj |-> nd, key |-> h[nd].keys[index + 1]]
    ELSE IF Len(h[nd].keys) = 0 THEN ac
    ELSE [obj |-> nd, key |-> h[nd].keys[1]]

\* instrument.direct_beam_match(active_channel, channel, skip_slits)
direct_beam_match(a, c, skip_slits) ==
    /\ a.geom[1] = c.geom[1]
    /\ (skip_slits \/ a.geom[2] = c.geom[2])

\* NexusData.set_parameter("normalization", value) on measurement nd
set_parameter(h, nd, value) == [h EXCEPT ![nd].normalization = value]

---------------------------------------------------------------------------
(* DataManager.find_best_direct_beam *)

\* lines 517-526: the first loop from entry i on; closest is the choice so far
RECURSIVE StrictPass(_, _, _, _, _)
StrictPass(h, dbl, ac, i, closest) ==
    IF i > Len(dbl) THEN closest
    ELSE LET item == h[dbl[i]]
             active_channel_number == FirstRun(Number(h[ac.obj]))
             item_number == IntOf(Number(item))
             chosen ==
                 IF Len(item.keys) > 0 /\ direct_beam_match(h[ac.obj], item, FALSE)
                 THEN IF closest = NoRun THEN item_number
                      ELSE IF Abs(item_number - active_channel_number)
                                < Abs(closest - active_channel_number)
                           THEN item_number
                           ELSE closest
                 ELSE closest
         IN StrictPass(h, dbl, ac, i + 1, chosen)

\* lines 530-540: the second loop from entry i on.  It does not assign
\* item_number: the value the first loop left (the number of the last entry
\* of direct_beam_list) is used for every entry.
RECURSIVE RelaxedPass(_, _, _, _, _)
RelaxedPass(h, dbl, ac, i, closest) ==
    IF i > Len(dbl) THEN closest
    ELSE LET item == h[dbl[i]]
             active_channel_number == FirstRun(Number(h[ac.obj]))
             item_number == IntOf(Number(h[dbl[Len(dbl)]]))
             chosen ==
                 IF Len(item.keys) > 0 /\ direct_beam_match(h[ac.obj], item, TRUE)
                 THEN IF closest = NoRun THEN item_number
                      ELSE IF Abs(item_number - active_channel_number)
                                < Abs(closest - active_channel_number)
                           THEN item_number
                           ELSE closest
                 ELSE closest
         IN RelaxedPass(h, dbl, ac, i + 1, chosen)

\* line 518, int(item.number): the exception the entry raises, "" if none
ItemError(h, item) ==
    IF item = None THEN "AttributeError"
    ELSE IF ~IsInt(Number(h[item])) THEN "ValueError"
    ELSE ""

\* the error of the first entry of the list that raises, "" if none does
RECURSIVE FirstItemError(_, _, _)
FirstItemError(h, dbl, i) ==
    IF i > Len(dbl) THEN ""
    ELSE IF ItemError(h, dbl[i]) # "" THEN ItemError(h, dbl[i])
    ELSE FirstItemError(h, dbl, i + 1)

\* The outcome of lines 515-541: the exception raised, if any, and closest
find_best_direct_beam(h, dbl, ac) ==
    IF ac = NoChannel THEN [err |-> "AttributeError", closest |-> NoRun]
    ELSE IF FirstItemError(h, dbl, 1) # ""
         THEN [err |-> FirstItemError(h, dbl, 1), closest |-> NoRun]
    ELSE LET strict == StrictPass(h, dbl, ac, 1, NoRun)
         IN [err |-> "",
             closest |-> IF strict = NoRun
                         THEN RelaxedPass(h, dbl, ac, 1, NoRun)
                         ELSE strict]

---------------------------------------------------------------------------
(* DataManager._find_direct_beam and the calculations that use it *)

\* lines 379-387: int(x) if it can be taken, x itself otherwise
IntOrRaw(id) == IF IsInt(id) THEN <<"int", IntOf(id)>> ELSE <<"str", id>>

\* FindDirectBeamFrom without the test of line 390: a matching entry is
\* taken whether it has a channel or not
RECURSIVE FindDirectBeamAnyEntry(_, _, _, _, _)
FindDirectBeamAnyEntry(h, dbl, norm, i, direct_beam) ==
    IF i > Len(dbl) THEN [err |-> "", beam |-> direct_beam]
    ELSE IF dbl[i] = None THEN [err |-> "AttributeError", beam |-> None]
    ELSE FindDirectBeamAnyEntry(h, dbl, norm, i + 1,
            IF IntOrRaw(Number(h[dbl[i]])) = IntOrRaw(norm)
            THEN dbl[i] ELSE direct_beam)

\* lines 377-393 from entry i on: direct_beam is the choice so far.  The loop
\* does not stop at a match, so the last matching entry with a channel wins.
RECURSIVE FindDirectBeamFrom(_, _, _, _, _)
FindDirectBeamFrom(h, dbl, norm, i, direct_beam) ==
    IF i > Len(dbl) THEN [err |-> "", beam |-> direct_beam]
    ELSE IF dbl[i] = None THEN [err |-> "AttributeError", beam |-> None]
    ELSE FindDirectBeamFrom(h, dbl, norm, i + 1,
            IF /\ IntOrRaw(Number(h[dbl[i]])) = IntOrRaw(norm)
               /\ Len(h[dbl[i]].keys) >= 1
            THEN dbl[i] ELSE direct_beam)

\* _find_direct_beam(nexus_data) for a NexusData: the exception raised, if
\* any, and the measurement whose first channel is returned (None if none)
find_direct_beam(h, dbl, nd) ==
    IF nd = None THEN [err |-> "AttributeError", beam |-> None]
    ELSE IF Len(h[nd].keys) = 0 THEN [err |-> "", beam |-> None]
    ELSE IF h[nd].normalization = NoId THEN [err |-> "", beam |-> None]
    ELSE FindDirectBeamFrom(h, dbl, h[nd].normalization, 1, None)

\* _find_direct_beam(channel) for a CrossSectionData
find_direct_beam_of_channel(h, dbl, ac) ==
    IF ac = NoChannel THEN [err |-> "AttributeError", beam |-> None]
    ELSE IF h[ac.obj].normalization = NoId THEN [err |-> "", beam |-> None]
    ELSE FindDirectBeamFrom(h, dbl, h[ac.obj].normalization, 1, None)

\* One attempted calculation: the measurement, the direct beam measurement
\* handed to the calculator (None if none) and the outcome: "ok", or the
\* exception raised
Attempt(nd, beam, out) == [nd |-> nd, beam |-> beam, out |-> out]

\* DataManager.calculate_reflectivity(nexus_data=nd) and its off-specular
\* form: the calculator is invoked with whatever _find_direct_beam returned,
\* None included; calc_ok tells whether the calculator returns or raises
calculate_reflectivity(h, dbl, nd, calc_ok) ==
    LET fd == find_direct_beam(h, dbl, nd)
    IN IF fd.err # "" THEN Attempt(nd, None, fd.err)
       ELSE Attempt(nd, fd.beam, IF calc_ok THEN "ok" ELSE "CalculationError")

\* TryCalculate without the except clause: the exception leaves load
TryCalculateUncaught(h, dbl, nd, calc_ok) ==
    [attempt |-> calculate_reflectivity(h, dbl, nd, calc_ok),
     propagates |-> calculate_reflectivity(h, dbl, nd, calc_ok).out # "ok"]

\* lines 324-327 of load: try: self.calculate_reflectivity() with a bare
\* except that logs, so that no exception of the calculation leaves load
TryCalculate(h, dbl, nd, calc_ok) ==
    [attempt |-> calculate_reflectivity(h, dbl, nd, calc_ok), propagates |-> FALSE]

\* calculate_gisans with the test of lines 430-432 left out
calculate_gisans_unguarded(h, dbl, nd, calc_ok) ==
    calculate_reflectivity(h, dbl, nd, calc_ok)

\* DataManager.calculate_gisans(nexus_data=nd): lines 429-434
calculate_gisans(h, dbl, nd, calc_ok) ==
    LET fd == find_direct_beam(h, dbl, nd)
    IN IF fd.err # "" THEN Attempt(nd, None, fd.err)
       ELSE IF fd.beam = None THEN Attempt(nd, None, "RuntimeError")
       ELSE Attempt(nd, fd.beam, IF calc_ok THEN "ok" ELSE "CalculationError")

\* ReduceFrom with a loop that ends at the first failure
RECURSIVE ReduceFromStopAtFailure(_, _, _, _, _, _)
ReduceFromStopAtFailure(gisans, h, dbl, rl, oks, i) ==
    IF i > Len(rl) THEN << >>
    ELSE LET a == IF gisans THEN calculate_gisans(h, dbl, rl[i], oks[i])
                  ELSE calculate_reflectivity(h, dbl, rl[i], oks[i])
         IN IF a.out # "ok" THEN <<a>>
            ELSE <<a>> \o ReduceFromStopAtFailure(gisans, h, dbl, rl, oks, i + 1)

\* The loops of reduce_gisans (lines 409-415) and reduce_offspec (lines
\* 468-472) from entry i of the reduction list on: each entry is attempted
\* inside try/except, and the attempts are returned in order.  oks[i] tells
\* whether the calculator returns for entry i.
ReduceFrom(gisans, h, dbl, rl, oks, i) ==
    [k \in 1..(Len(rl) - i + 1) |->
        IF gisans THEN calculate_gisans(h, dbl, rl[k + i - 1], oks[k + i - 1])
        ELSE calculate_reflectivity(h, dbl, rl[k + i - 1], oks[k + i - 1])]

\* the calculator was invoked in the attempt
Invoked(a) == a.out \in {"ok", "CalculationError"}

\* NexusData.calculate_reflectivity returned: the reflectivity arrays exist
SetReflectivity(h, nd) == [h EXCEPT ![nd].q = <<1>>, ![nd].r = <<1>>]

---------------------------------------------------------------------------
(* Progress reporting.  A reported value is the rational n / d. *)

Value(n, d) == [n |-> n, d |-> d]

\* a <= b for two reported values
Leq(a, b) == a.n * b.d <= b.n * a.d

\* line 275, progress(10, "Loading data...")
LOADING == 10
\* line 294, create_sub_task(max_value=70)
SUB_TASK_MAX == 70
\* line 298, progress(80, "Calculating...")
CALCULATING == 80
\* lines 335 and 417, progress(100), and the 100.0 of line 413
COMPLETE == 100
\* line 408, progress(1, "Reducing GISANS...")
REDUCING == 1

\* a sub-task that maps its range onto all that is left of the parent's
sub_task_to_the_end(start, max_value, v) ==
    Value(start * COMPLETE + v * (COMPLETE - start), COMPLETE)

\* ProgressReporter.create_sub_task(max_value): the value reported to the
\* parent, standing at start, when the sub-task reports v of its own range
\* 0..100: the sub-task's range is the parent's slice from start to max_value
sub_task(start, max_value, v) ==
    Value(start * COMPLETE + v * (max_value - start), COMPLETE)

\* NexusData.load(progress=sub_task): the values the Loader reports of its
\* own range, the last of them 100 if it returns
LoaderReports(loader_ok) == IF loader_ok THEN <<0, 50, 100>> ELSE <<0, 50>>

\* The values load reports, lines 274-335: is_from_cache is the outcome of
\* the cache scan, loader_ok that of the Loader, and raised tells whether an
\* exception left load after line 298
load_progress(is_from_cache, loader_ok, raised) ==
    <<Value(LOADING, 1)>>
    \o (IF is_from_cache THEN << >>
        ELSE [k \in 1..Len(LoaderReports(loader_ok)) |->
                 sub_task(LOADING, SUB_TASK_MAX, LoaderReports(loader_ok)[k])])
    \o (IF ~is_from_cache /\ ~loader_ok THEN << >>
        ELSE <<Value(CALCULATING, 1)>>
             \o (IF raised THEN << >> ELSE <<Value(COMPLETE, 1)>>))

\* lines 409-413: a value for each attempt that succeeded, in list order
Reported(log) ==
    LET succeeded == SelectSeq([i \in 1..Len(log) |-> i],
                               LAMBDA i : log[i].out = "ok")
    IN [k \in 1..Len(succeeded) |-> Value(COMPLETE * succeeded[k], Len(log))]

\* The values reduce_gisans reports, lines 407-417, log being its attempts
gisans_progress(log) ==
    <<Value(REDUCING, 1)>> \o Reported(log) \o <<Value(COMPLETE, 1)>>

---------------------------------------------------------------------------
(* The state after construction *)

\* log: the calculations the call attempted, in order; pair: a returned
\* pair; progress: the values the call reported to its progress collaborator
Call(op, path, force, val, num) ==
    [op |-> op, path |-> path, force |-> force, val |-> val, num |-> num,
     log |-> << >>, pair |-> << >>, progress |-> << >>]

Init ==
    /\ heap = << >>
    /\ cache = << >>
    /\ reduction_list = << >>
    /\ direct_beam_list = << >>
    /\ reduction_states = << >>
    /\ nexus_data = None
    /\ active_channel = NoChannel
    /\ current_directory = "cwd"
    /\ current_file_name = << >>
    /\ last = Call("init", << >>, FALSE, "None", 0)
    /\ batch = NoBatch

---------------------------------------------------------------------------
(* DataManager.load *)

\* CacheIndex with a comparison that never succeeds
CacheIndexMiss(h, c, file_path) == None

\* lines 278-279: the first cache index holding file_path, or None
CacheIndex(h, c, file_path) ==
    IF \E i \in 1..Len(c) : h[c[i]].file_path = file_path
    THEN CHOOSE i \in 1..Len(c) :
            /\ h[c[i]].file_path = file_path
            /\ \A j \in 1..(i - 1) : h[c[j]].file_path # file_path
    ELSE None

\* Evict with the comparison > for >=
RECURSIVE EvictOffByOne(_)
EvictOffByOne(c) ==
    IF Len(c) > MAX_CACHE THEN EvictOffByOne(Tail(c)) ELSE c

\* lines 330-331: while len(self._cache) >= self.MAX_CACHE: self._cache.pop(0)
RECURSIVE Evict(_)
Evict(c) == IF Len(c) >= MAX_CACHE THEN Evict(Tail(c)) ELSE c

\* CacheInsert with pop() for pop(0): the newest entry is evicted
CacheInsertEvictNewest(c, nd) ==
    Append(IF Len(c) >= MAX_CACHE THEN SubSeq(c, 1, MAX_CACHE - 1) ELSE c, nd)

\* lines 330-332
CacheInsert(c, nd) == Append(Evict(c), nd)

\* FilePath(file_path).split()[0]
Directory(file_path) == "/data"

\* a hit that makes its entry the most recently used one
CacheHitMovesToEnd(c, i) == Append(Pop(c, i), c[i])

\* lines 285-287: the cache after a hit on its entry i, which is read and
\* stays where it is
CacheHit(c, i) == c

\* raw: the path argument; match: configuration.match_direct_beam holds and
\* the Loader left configuration.normalization unset; loader_ok: NexusData.load
\* returns instead of raising; calc_ok: the reflectivity calculator returns
\* instead of raising; out: what the Loader found in the file
Load(raw, force, match, loader_ok, calc_ok, out) ==
    LET file_path == FilePath(raw)
        i == CacheIndex(heap, cache, file_path)
        is_from_cache == i # None /\ ~force
        stale == IF i # None /\ force THEN cache[i] ELSE None
        reduction_list_id ==
            IF stale # None THEN IndexOf(reduction_list, stale) ELSE None
        direct_beam_list_id ==
            IF stale # None THEN IndexOf(direct_beam_list, stale) ELSE None
        cache1 == IF stale # None THEN Pop(cache, i) ELSE cache
    IN
    IF is_from_cache THEN
        /\ nexus_data' = cache[i]
        /\ current_directory' = Directory(file_path)
        /\ current_file_name' = file_path
        /\ active_channel' = set_channel(heap, cache[i], 0, active_channel)
        /\ last' = [Call("load", file_path, force, "True", 0)
                      EXCEPT !.progress = load_progress(TRUE, TRUE, FALSE)]
        /\ cache' = CacheHit(cache, i)
        /\ UNCHANGED <<heap, reduction_list, direct_beam_list, reduction_states>>
    ELSE IF ~loader_ok THEN
        \* NexusData.load raises at line 295, after the pop of line 284
        /\ cache' = cache1
        /\ last' = [Call("load", file_path, force, "LoadError", 0)
                      EXCEPT !.progress = load_progress(FALSE, FALSE, TRUE)]
        /\ UNCHANGED <<heap, reduction_list, direct_beam_list, reduction_states,
                       nexus_data, active_channel, current_directory,
                       current_file_name>>
    ELSE
        LET new == Len(heap) + 1
            heap1 == Append(heap, NewNexusData(file_path, out))
            ac1 == set_channel(heap1, new, 0, active_channel)
            fb == IF match
                  THEN find_best_direct_beam(heap1, direct_beam_list, ac1)
                  ELSE [err |-> "", closest |-> NoRun]
            heap2 == IF fb.closest # NoRun
                     THEN set_parameter(heap1, new, <<fb.closest>>)
                     ELSE heap1
        IN
        /\ nexus_data' = new
        /\ current_directory' = Directory(file_path)
        /\ current_file_name' = file_path
        /\ active_channel' = ac1
        /\ UNCHANGED reduction_states
        /\ IF fb.err # "" THEN
              \* find_best_direct_beam raises at line 315
              /\ heap' = heap1
              /\ cache' = cache1
              /\ last' = [Call("load", file_path, force, fb.err, 0)
                            EXCEPT !.progress = load_progress(FALSE, TRUE, TRUE)]
              /\ UNCHANGED <<reduction_list, direct_beam_list>>
           ELSE
              LET dbl1 == IF direct_beam_list_id # None
                          THEN [direct_beam_list EXCEPT ![direct_beam_list_id] = new]
                          ELSE direct_beam_list
                  try == TryCalculate(heap2, dbl1, new, calc_ok)
                  calc == try.attempt
              IN
              /\ heap' = IF calc.out = "ok" THEN SetReflectivity(heap2, new) ELSE heap2
              /\ reduction_list' =
                    IF reduction_list_id # None
                    THEN [reduction_list EXCEPT ![reduction_list_id] = new]
                    ELSE reduction_list
              /\ direct_beam_list' = dbl1
              /\ cache' = IF try.propagates THEN cache1 ELSE CacheInsert(cache1, new)
              /\ last' = [Call("load", file_path, force,
                                 IF try.propagates THEN calc.out ELSE "False",
                                 fb.closest)
                            EXCEPT !.log = <<calc>>,
                                   !.progress =
                                       load_progress(FALSE, TRUE, try.propagates)]

\* The load calls with at most n objects constructed and the arguments,
\* Loader outcomes and file contents drawn from the given sets
LoadCalls(n, Raws, Forces, Matches, Oks, Calcs, Outs) ==
    /\ Len(heap) < n
    /\ \E raw \in Raws, force \in Forces, match \in Matches,
          loader_ok \in Oks, calc_ok \in Calcs, out \in Outs :
            Load(raw, force, match, loader_ok, calc_ok, out)
    /\ UNCHANGED batch

LoadAct ==
    LoadCalls(MaxObj, RawPaths, BOOLEAN, BOOLEAN, BOOLEAN, BOOLEAN, SomeOutputs)

\* DataManager.clear_cache
ClearCacheAct ==
    /\ cache' = << >>
    /\ last' = Call("clear_cache", << >>, FALSE, "None", 0)
    /\ UNCHANGED <<batch, heap, reduction_list, direct_beam_list, reduction_states,
                   nexus_data, active_channel, current_directory, current_file_name>>

\* DataManager.set_active_data_from_reduction_list
SetActiveDataFromReductionList(index) ==
    /\ IF index < Len(reduction_list)
       THEN /\ nexus_data' = reduction_list[index + 1]
            /\ active_channel' =
                  set_channel(heap, reduction_list[index + 1], 0, active_channel)
       ELSE UNCHANGED <<nexus_data, active_channel>>
    /\ last' = Call("set_active_data_from_reduction_list", << >>, FALSE, "None", index)
    /\ UNCHANGED <<batch, heap, cache, reduction_list, direct_beam_list, reduction_states,
                   current_directory, current_file_name>>

\* DataManager.set_active_data_from_direct_beam_list
SetActiveDataFromDirectBeamList(index) ==
    /\ IF index < Len(direct_beam_list)
       THEN /\ nexus_data' = direct_beam_list[index + 1]
            /\ active_channel' =
                  set_channel(heap, direct_beam_list[index + 1], 0, active_channel)
       ELSE UNCHANGED <<nexus_data, active_channel>>
    /\ last' = Call("set_active_data_from_direct_beam_list", << >>, FALSE, "None", index)
    /\ UNCHANGED <<batch, heap, cache, reduction_list, direct_beam_list, reduction_states,
                   current_directory, current_file_name>>

\* DataManager.set_channel
SetChannel(index) ==
    /\ active_channel' = set_channel(heap, nexus_data, index, active_channel)
    /\ last' = Call("set_channel", << >>, FALSE,
                    IF nexus_data # None /\ index < Len(heap[nexus_data].keys)
                    THEN "True" ELSE "False", index)
    /\ UNCHANGED <<batch, heap, cache, reduction_list, direct_beam_list, reduction_states,
                   nexus_data, current_directory, current_file_name>>

\* is_active_data_compatible without the loop over the states
is_active_data_compatible_count(h, nd, rl, rs) ==
    \/ rl = << >>
    \/ Len(rs) = Len(h[nd].keys)

\* DataManager.is_active_data_compatible, for active measurement nd
is_active_data_compatible(h, nd, rl, rs) ==
    \/ rl = << >>
    \/ /\ Len(rs) = Len(h[nd].keys)
       /\ \A k \in 1..Len(h[nd].keys) : h[nd].keys[k] \in Range(rs)

\* NexusData.get_reflectivity_workspace_group()[0] exists: the two-theta of a
\* measurement is read from its first channel
HasWorkspace(m) == Len(m.keys) > 0

\* ws.getRun().getProperty("two_theta").value
TwoTheta(m) == m.two_theta

\* InsertByTheta that always appends
InsertByThetaAppend(h, rl, nd) == Append(rl, nd)

\* lines 201-210: the list with nd inserted before the first entry whose
\* two-theta is at least that of nd, or appended
InsertByTheta(h, rl, nd) ==
    LET theta == TwoTheta(h[nd])
        found == { i \in 1..Len(rl) : theta <= TwoTheta(h[rl[i]]) }
    IN IF found # {}
       THEN Insert(rl, CHOOSE i \in found : \A j \in found : i <= j, nd)
       ELSE Append(rl, nd)

\* DataManager.add_active_to_reduction
add_active_to_reduction ==
    /\ UNCHANGED <<heap, cache, direct_beam_list, nexus_data, active_channel,
                   current_directory, current_file_name>>
    /\ IF nexus_data \in Range(reduction_list) THEN
          /\ last' = Call("add_active_to_reduction", << >>, FALSE, "False", 0)
          /\ UNCHANGED <<reduction_list, reduction_states>>
       ELSE IF nexus_data = None THEN
          \* self.data_sets is None: self.data_sets.keys() raises
          /\ last' = Call("add_active_to_reduction", << >>, FALSE, "AttributeError", 0)
          /\ UNCHANGED <<reduction_list, reduction_states>>
       ELSE IF ~is_active_data_compatible(heap, nexus_data, reduction_list,
                                          reduction_states) THEN
          /\ last' = Call("add_active_to_reduction", << >>, FALSE, "False", 0)
          /\ UNCHANGED <<reduction_list, reduction_states>>
       ELSE
          /\ reduction_states' =
                IF Len(reduction_list) = 0 THEN heap[nexus_data].keys
                ELSE reduction_states
          /\ IF \/ ~HasWorkspace(heap[nexus_data])
                \/ \E i \in 1..Len(reduction_list) :
                      ~HasWorkspace(heap[reduction_list[i]])
             THEN \* line 198 or line 203 raises
                  /\ last' = Call("add_active_to_reduction", << >>, FALSE, "IndexError", 0)
                  /\ UNCHANGED reduction_list
             ELSE /\ reduction_list' = InsertByTheta(heap, reduction_list, nexus_data)
                  /\ last' = Call("add_active_to_reduction", << >>, FALSE, "True", 0)

\* a membership test that overlooks the last entry of the list
ContainsButLast(s, x) == \E i \in 1..(Len(s) - 1) : s[i] = x

\* line 220, x in list: some entry of the list is the object x
Contains(s, x) == \E i \in 1..Len(s) : s[i] = x

\* DataManager.add_active_to_normalization
add_active_to_normalization ==
    /\ IF ~Contains(direct_beam_list, nexus_data)
       THEN /\ direct_beam_list' = Append(direct_beam_list, nexus_data)
            /\ last' = Call("add_active_to_normalization", << >>, FALSE, "True", 0)
       ELSE /\ UNCHANGED direct_beam_list
            /\ last' = Call("add_active_to_normalization", << >>, FALSE, "False", 0)
    /\ UNCHANGED <<heap, cache, reduction_list, reduction_states, nexus_data,
                   active_channel, current_directory, current_file_name>>

\* the two calls made on their own
AddActiveToReduction == add_active_to_reduction /\ UNCHANGED batch

AddActiveToNormalization == add_active_to_normalization /\ UNCHANGED batch

\* DataManager.remove_active_from_normalization
RemoveActiveFromNormalization ==
    /\ IF nexus_data \in Range(direct_beam_list)
       THEN /\ direct_beam_list' =
                  Pop(direct_beam_list, IndexOf(direct_beam_list, nexus_data))
            /\ last' = Call("remove_active_from_normalization", << >>, FALSE, "int",
                            IndexOf(direct_beam_list, nexus_data) - 1)
       ELSE /\ UNCHANGED direct_beam_list
            /\ last' = Call("remove_active_from_normalization", << >>, FALSE, "int", -1)
    /\ UNCHANGED <<batch, heap, cache, reduction_list, reduction_states, nexus_data,
                   active_channel, current_directory, current_file_name>>

\* DataManager.clear_direct_beam_list
ClearDirectBeamList ==
    /\ direct_beam_list' = << >>
    /\ last' = Call("clear_direct_beam_list", << >>, FALSE, "None", 0)
    /\ UNCHANGED <<batch, heap, cache, reduction_list, reduction_states, nexus_data,
                   active_channel, current_directory, current_file_name>>

\* DataManager.find_best_direct_beam, called on its own
FindBestDirectBeam ==
    LET fb == find_best_direct_beam(heap, direct_beam_list, active_channel)
    IN
    /\ UNCHANGED <<batch, cache, reduction_list, direct_beam_list, reduction_states,
                   nexus_data, active_channel, current_directory, current_file_name>>
    /\ IF fb.err # "" THEN
          /\ last' = Call("find_best_direct_beam", << >>, FALSE, fb.err, 0)
          /\ UNCHANGED heap
       ELSE IF fb.closest = NoRun THEN
          /\ last' = Call("find_best_direct_beam", << >>, FALSE, "False", NoRun)
          /\ UNCHANGED heap
       ELSE IF nexus_data = None THEN
          \* self._nexus_data.set_parameter on None
          /\ last' = Call("find_best_direct_beam", << >>, FALSE, "AttributeError", fb.closest)
          /\ UNCHANGED heap
       ELSE
          /\ heap' = set_parameter(heap, nexus_data, <<fb.closest>>)
          /\ last' = Call("find_best_direct_beam", << >>, FALSE,
                          IF heap[nexus_data].normalization # <<fb.closest>>
                          THEN "True" ELSE "False", fb.closest)

\* DataManager.calculate_reflectivity() for the active measurement
CalculateReflectivity(calc_ok) ==
    LET a == calculate_reflectivity(heap, direct_beam_list, nexus_data, calc_ok)
    IN
    /\ heap' = IF a.out = "ok" THEN SetReflectivity(heap, nexus_data) ELSE heap
    /\ last' = [Call("calculate_reflectivity", << >>, FALSE,
                       IF a.out = "ok" THEN "None" ELSE a.out, 0)
                  EXCEPT !.log = <<a>>]
    /\ UNCHANGED <<batch, cache, reduction_list, direct_beam_list, reduction_states,
                   nexus_data, active_channel, current_directory, current_file_name>>

\* DataManager.calculate_gisans() for the active measurement
CalculateGisans(calc_ok) ==
    LET a == calculate_gisans(heap, direct_beam_list, nexus_data, calc_ok)
    IN
    /\ last' = [Call("calculate_gisans", << >>, FALSE,
                       IF a.out = "ok" THEN "None" ELSE a.out, 0)
                  EXCEPT !.log = <<a>>]
    /\ UNCHANGED <<batch, heap, cache, reduction_list, direct_beam_list, reduction_states,
                   nexus_data, active_channel, current_directory, current_file_name>>

\* DataManager.reduce_gisans
ReduceGisans(oks) ==
    /\ LET log == ReduceFrom(TRUE, heap, direct_beam_list, reduction_list, oks, 1)
       IN last' = [Call("reduce_gisans", << >>, FALSE, "None", 0)
                     EXCEPT !.log = log, !.progress = gisans_progress(log)]
    /\ UNCHANGED <<batch, heap, cache, reduction_list, direct_beam_list, reduction_states,
                   nexus_data, active_channel, current_directory, current_file_name>>

\* DataManager.reduce_offspec
ReduceOffspec(oks) ==
    /\ last' = [Call("reduce_offspec", << >>, FALSE, "None", 0)
                  EXCEPT !.log = ReduceFrom(FALSE, heap, direct_beam_list,
                                            reduction_list, oks, 1)]
    /\ UNCHANGED <<batch, heap, cache, reduction_list, direct_beam_list, reduction_states,
                   nexus_data, active_channel, current_directory, current_file_name>>

\* DataManager.load_data_from_reduced_file, lines 689-695: the direct beam
\* files and then the data files that read_reduced_file lists.  A listed
\* file has a kind ("db" or "data"), the path raw, exists (os.path.isfile
\* holds for each of its components) and norm, the normalization of its
\* configuration.  The call is run file by file: batch.pc is "file" before a
\* file is looked at, "cached" and "add" inside the lines that follow a load,
\* "done" when the call has returned and "raised" when an exception left it.
LoadDataFromReducedFile(files) ==
    /\ batch.pc = "idle"
    /\ batch' = [pc |-> "file", files |-> files, n_loaded |-> 0]
    /\ last' = Call("load_data_from_reduced_file", << >>, FALSE, "running", 0)
    /\ UNCHANGED <<heap, cache, reduction_list, direct_beam_list, reduction_states,
                   nexus_data, active_channel, current_directory, current_file_name>>

\* the file the call is at
BatchFile == batch.files[batch.n_loaded + 1]

\* lines 707-711 and 729-733: the file does not exist; logged, next file
ReducedFileMissing ==
    /\ batch.pc = "file"
    /\ batch.n_loaded < Len(batch.files)
    /\ ~BatchFile.exists
    /\ batch' = [batch EXCEPT !.n_loaded = @ + 1]
    /\ UNCHANGED <<heap, cache, reduction_list, direct_beam_list, reduction_states,
                   nexus_data, active_channel, current_directory, current_file_name,
                   last>>

\* lines 699 and 720: self.load(run_file, conf, update_parameters=False),
\* outside any try: an exception of load leaves the call
ReducedFileLoad(match, loader_ok, calc_ok, out) ==
    /\ batch.pc = "file"
    /\ batch.n_loaded < Len(batch.files)
    /\ BatchFile.exists
    /\ Load(BatchFile.raw, FALSE, match, loader_ok, calc_ok, out)
    /\ batch' = [batch EXCEPT !.pc = IF last'.val = "True" THEN "cached"
                                     ELSE IF last'.val = "False" THEN "add"
                                     ELSE "raised"]

\* lines 700-702 and 721-724, after a load served from the cache: the
\* configuration of the file is applied and, for a data file, the
\* reflectivity is calculated, outside any try
ReducedFileCached(calc_ok) ==
    LET heap1 == set_parameter(heap, nexus_data, BatchFile.norm)
        a == calculate_reflectivity(heap1, direct_beam_list, nexus_data, calc_ok)
    IN
    /\ batch.pc = "cached"
    /\ IF BatchFile.kind = "db" THEN
          /\ heap' = heap1
          /\ batch' = [batch EXCEPT !.pc = "add"]
          /\ UNCHANGED last
       ELSE
          /\ heap' = IF a.out = "ok" THEN SetReflectivity(heap1, nexus_data) ELSE heap1
          /\ batch' = [batch EXCEPT !.pc = IF a.out = "ok" THEN "add" ELSE "raised"]
          /\ last' = [Call("calculate_reflectivity", << >>, FALSE,
                             IF a.out = "ok" THEN "None" ELSE a.out, 0)
                        EXCEPT !.log = <<a>>]
    /\ UNCHANGED <<cache, reduction_list, direct_beam_list, reduction_states,
                   nexus_data, active_channel, current_directory, current_file_name>>

\* lines 703 and 725: the active measurement is added to the list of the
\* kind of the file; lines 711 and 733: next file
ReducedFileAdd ==
    /\ batch.pc = "add"
    /\ IF BatchFile.kind = "db"
       THEN add_active_to_normalization
       ELSE add_active_to_reduction
    /\ batch' = IF last'.val \in {"True", "False"}
                THEN [batch EXCEPT !.pc = "file", !.n_loaded = @ + 1]
                ELSE [batch EXCEPT !.pc = "raised"]

\* lines 735-738: every file has been looked at, the call returns
ReducedFileDone ==
    /\ batch.pc = "file"
    /\ batch.n_loaded = Len(batch.files)
    /\ batch' = [batch EXCEPT !.pc = "done"]
    /\ last' = Call("load_data_from_reduced_file", << >>, FALSE, "None", batch.n_loaded)
    /\ UNCHANGED <<heap, cache, reduction_list, direct_beam_list, reduction_states,
                   nexus_data, active_channel, current_directory, current_file_name>>

\* r.max()
MaxOf(r) == CHOOSE m \in Range(r) : \A x \in Range(r) : x <= m

\* TrimValues with the threshold at half of the maximum
TrimValuesHalfMax(r) ==
    LET region == { i \in 1..Len(r) : 100 * r[i] >= 50 * MaxOf(r) }
        first == CHOOSE i \in region : \A j \in region : i <= j
        final == CHOOSE i \in region : \A j \in region : j <= i
    IN <<first - 1, Len(r) - (final - 1) - 1>>

\* lines 561-563: region = np.where(r >= r.max() * 0.05)[0], p_0 = region[0],
\* p_n = len(r) - region[-1] - 1.  Positions are counted from 1 here and from
\* 0 in the source; for integer intensities r[i] >= 0.05 * max is
\* 100 * r[i] >= 5 * max.
TrimValues(r) ==
    LET region == { i \in 1..Len(r) : 100 * r[i] >= 5 * MaxOf(r) }
        first == CHOOSE i \in region : \A j \in region : i <= j
        final == CHOOSE i \in region : \A j \in region : j <= i
    IN <<first - 1, Len(r) - (final - 1) - 1>>

\* NexusData.set_parameter for the two cuts
set_cuts(h, nd, p_0, p_n) ==
    [h EXCEPT ![nd].cut_first_n_points = p_0, ![nd].cut_last_n_points = p_n]

\* DataManager.get_trim_values
GetTrimValues ==
    LET fd == find_direct_beam_of_channel(heap, direct_beam_list, active_channel)
    IN
    /\ UNCHANGED <<batch, cache, reduction_list, direct_beam_list, reduction_states,
                   nexus_data, active_channel, current_directory, current_file_name>>
    /\ IF /\ active_channel # NoChannel
          /\ heap[active_channel.obj].q # << >>
          /\ heap[active_channel.obj].normalization # NoId
       THEN IF fd.err # "" THEN
               /\ last' = Call("get_trim_values", << >>, FALSE, fd.err, 0)
               /\ UNCHANGED heap
            ELSE IF fd.beam = None THEN
               \* lines 557-559
               /\ last' = Call("get_trim_values", << >>, FALSE, "None", 0)
               /\ UNCHANGED heap
            ELSE IF heap[fd.beam].r = << >> \/ nexus_data = None THEN
               \* direct_beam.r is None, or self._nexus_data is
               /\ last' = Call("get_trim_values", << >>, FALSE, "AttributeError", 0)
               /\ UNCHANGED heap
            ELSE
               LET tv == TrimValues(heap[fd.beam].r)
               IN /\ heap' = set_cuts(heap, nexus_data, tv[1], tv[2])
                  /\ last' = [Call("get_trim_values", << >>, FALSE, "list", 0)
                                EXCEPT !.pair = tv]
       ELSE \* line 567
            /\ last' = Call("get_trim_values", << >>, FALSE, "None", 0)
            /\ UNCHANGED heap

\* StripFrom that keeps the first overlapping point
RECURSIVE StripFromOffByOne(_, _, _, _)
StripFromOffByOne(h, rl, xs, idx) ==
    IF idx >= Len(rl) THEN [err |-> "", heap |-> h]
    ELSE LET item == rl[idx]
             next_item == rl[idx + 1]
             err == IF xs \notin Range(h[next_item].keys) \/ xs \notin Range(h[item].keys)
                    THEN "KeyError"
                    ELSE IF h[next_item].q = << >> \/ h[item].q = << >>
                    THEN "TypeError"
                    ELSE IF h[next_item].cut_first_n_points >= Len(h[next_item].q)
                    THEN "IndexError"
                    ELSE ""
             end_idx == h[next_item].cut_first_n_points
             overlap_idx == { k \in 1..Len(h[item].q) :
                                 h[item].q[k] >= h[next_item].q[end_idx + 1] }
             first == CHOOSE k \in overlap_idx : \A j \in overlap_idx : k <= j
             n_points == Len(h[item].q) - (first - 1) - 1
             h1 == IF overlap_idx # {}
                   THEN [h EXCEPT ![item].cut_last_n_points = n_points]
                   ELSE h
         IN IF err # "" THEN [err |-> err, heap |-> h]
            ELSE StripFromOffByOne(h1, rl, xs, idx + 1)

\* lines 578-586 from the entry at position idx of the reduction list on,
\* positions counted from 1: the exception raised, if any, and the heap
RECURSIVE StripFrom(_, _, _, _)
StripFrom(h, rl, xs, idx) ==
    IF idx >= Len(rl) THEN [err |-> "", heap |-> h]
    ELSE LET item == rl[idx]
             next_item == rl[idx + 1]
             err == IF xs \notin Range(h[next_item].keys) \/ xs \notin Range(h[item].keys)
                    THEN "KeyError"
                    ELSE IF h[next_item].q = << >> \/ h[item].q = << >>
                    THEN "TypeError"
                    ELSE IF h[next_item].cut_first_n_points >= Len(h[next_item].q)
                    THEN "IndexError"
                    ELSE ""
             end_idx == h[next_item].cut_first_n_points
             overlap_idx == { k \in 1..Len(h[item].q) :
                                 h[item].q[k] >= h[next_item].q[end_idx + 1] }
             first == CHOOSE k \in overlap_idx : \A j \in overlap_idx : k <= j
             n_points == Len(h[item].q) - (first - 1)
             h1 == IF overlap_idx # {}
                   THEN [h EXCEPT ![item].cut_last_n_points = n_points]
                   ELSE h
         IN IF err # "" THEN [err |-> err, heap |-> h]
            ELSE StripFrom(h1, rl, xs, idx + 1)

\* DataManager.strip_overlap
StripOverlap ==
    /\ UNCHANGED <<batch, cache, reduction_list, direct_beam_list, reduction_states,
                   nexus_data, active_channel, current_directory, current_file_name>>
    /\ IF Len(reduction_list) < 2 THEN
          /\ last' = Call("strip_overlap", << >>, FALSE, "None", 0)
          /\ UNCHANGED heap
       ELSE IF active_channel = NoChannel THEN
          /\ last' = Call("strip_overlap", << >>, FALSE, "AttributeError", 0)
          /\ UNCHANGED heap
       ELSE
          LET so == StripFrom(heap, reduction_list, active_channel.key, 1)
          IN /\ heap' = so.heap
             /\ last' = Call("strip_overlap", << >>, FALSE,
                             IF so.err # "" THEN so.err ELSE "None", 0)

\* p_state or m_state is None
NoState == ""

\* str.lower() on the channel labels of the model
Lower(k) ==
    CASE k = "Off_Off" -> "off_off"
      [] k = "On_On" -> "on_on"
      [] OTHER -> k

\* the last entry of rs that is in S, NoState if there is none: what a loop
\* over rs that assigns at every entry of S leaves
LastIn(rs, S) ==
    IF \E i \in 1..Len(rs) : rs[i] \in S
    THEN rs[CHOOSE i \in 1..Len(rs) :
                rs[i] \in S /\ \A j \in (i + 1)..Len(rs) : rs[j] \notin S]
    ELSE NoState

\* TwoStates with the two branches exchanged
TwoStatesExchanged(rs) ==
    IF Lower(rs[1]) \in {"off_off", "off-off"}
    THEN <<rs[2], rs[1]>>
    ELSE <<rs[1], rs[2]>>

\* lines 620-626: p_state and m_state for two labels
TwoStates(rs) ==
    IF Lower(rs[1]) \in {"off_off", "off-off"}
    THEN <<rs[1], rs[2]>>
    ELSE <<rs[2], rs[1]>>

\* lines 627-647, for another number of labels: the exception raised, if
\* any, p_state and m_state.  The loops assign _p_state_data and
\* _m_state_data only; p_state and m_state are never assigned from them and
\* are None at line 650 whatever the loops have found.
ManyStates(h, nd, rs) ==
    LET by_name_p == LastIn(rs, { k \in Range(rs) : Lower(k) \in {"off_off", "off-off"} })
        by_name_m == LastIn(rs, { k \in Range(rs) : Lower(k) \in {"on_on", "on-on"} })
        by_label_p == LastIn(rs, { k \in Range(rs) : cross_section_label(k) = "++" })
        by_label_m == LastIn(rs, { k \in Range(rs) : cross_section_label(k) = "--" })
        labels_read == rs # << >> /\ (by_name_p = NoState \/ by_name_m = NoState)
    IN [err |-> IF ~labels_read THEN ""
                ELSE IF nd = None THEN "TypeError"
                ELSE IF \E i \in 1..Len(rs) : rs[i] \notin Range(h[nd].keys)
                THEN "KeyError"
                ELSE "",
        pair |-> <<NoState, NoState>>]

\* DataManager.determine_asymmetry_states
DetermineAsymmetryStates ==
    LET rs == reduction_states
        found == IF Len(rs) = 2 THEN [err |-> "", pair |-> TwoStates(rs)]
                 ELSE ManyStates(heap, nexus_data, rs)
        \* lines 650-652
        pair == IF found.pair = <<NoState, NoState>> /\ Len(rs) >= 2
                THEN <<rs[1], rs[Len(rs)]>>
                ELSE found.pair
    IN
    /\ last' = IF found.err # ""
               THEN Call("determine_asymmetry_states", << >>, FALSE, found.err, 0)
               ELSE [Call("determine_asymmetry_states", << >>, FALSE, "tuple", 0)
                      EXCEPT !.pair = pair]
    /\ UNCHANGED <<batch, heap, cache, reduction_list, direct_beam_list,
                   reduction_states, nexus_data, active_channel, current_directory,
                   current_file_name>>

SetActiveDataFromReductionListAct ==
    \E index \in 0..(MaxObj - 1) : SetActiveDataFromReductionList(index)

SetActiveDataFromDirectBeamListAct ==
    \E index \in 0..(MaxObj - 1) : SetActiveDataFromDirectBeamList(index)

SetChannelAct == \E index \in 0..2 : SetChannel(index)

---------------------------------------------------------------------------
(* The cache alone: load and clear_cache *)

CacheLoad ==
    LoadCalls(MaxLoads, RawPaths, BOOLEAN, BOOLEAN, BOOLEAN, {TRUE}, SomeOutputs)

NextCache == CacheLoad \/ ClearCacheAct

SpecCache == Init /\ [][NextCache]_vars

---------------------------------------------------------------------------
(* The reduction list: load, selection and add_active_to_reduction *)

ReducedOutputs ==
    [keys : { << >>, <<"Off_Off">>, <<"On_On">> }, two_theta : Thetas, geom : { <<1, 1>> }]

ReducedLoad ==
    LoadCalls(MaxReduced, { <<10>>, <<15>> }, BOOLEAN, {FALSE}, {TRUE}, {TRUE},
              ReducedOutputs)

ReducedSelect == \E index \in 0..(MaxReduced - 1) : SetActiveDataFromReductionList(index)

NextReduced == ReducedLoad \/ ReducedSelect \/ AddActiveToReduction

SpecReduced == Init /\ [][NextReduced]_vars

---------------------------------------------------------------------------
(* Insertions only: as SpecReduced, without forced reloads *)

InsertLoad ==
    LoadCalls(MaxReduced, RawPaths, {FALSE}, {FALSE}, {TRUE}, {TRUE},
              [keys : { <<"Off_Off">> }, two_theta : Thetas, geom : { <<1, 1>> }])

NextInsert == InsertLoad \/ ReducedSelect \/ AddActiveToReduction

SpecInsert == Init /\ [][NextInsert]_vars

---------------------------------------------------------------------------
(* Filling the cache: from the empty cache, loads that return, each of a *)
(* path not loaded before                                                 *)

FillPaths ==
    { <<10>>, <<15>>, <<20>>, <<10, 15>>, <<15, 10>>, <<20, 10>>, <<20, 15>> }

FillLoad ==
    /\ Len(heap) < MAX_CACHE + 2
    /\ \E raw \in FillPaths, force \in BOOLEAN, match \in BOOLEAN, out \in SomeOutputs :
          /\ \A o \in 1..Len(heap) : heap[o].file_path # FilePath(raw)
          /\ Load(raw, force, match, TRUE, TRUE, out)
          /\ last'.val = "False"
    /\ UNCHANGED batch

NextFill == FillLoad

SpecFill == Init /\ [][NextFill]_vars

---------------------------------------------------------------------------
(* The direct beam matcher: find_best_direct_beam applied to a direct beam *)
(* list of up to MaxBeams measurements, loaded one after the other and     *)
(* added with add_active_to_normalization, and an active measurement       *)
(* loaded last                                                             *)

BeamPaths == { <<10>>, <<15>>, <<20>>, <<10, 15>> }
ActivePaths == { <<17>>, <<15, 17>> }
BeamOutputs ==
    [keys : { << >>, <<"Off_Off">> }, two_theta : {1},
     geom : { <<1, 1>>, <<1, 2>>, <<2, 1>> }]

\* the last MAX_CACHE of the objects 1..n, in the order of their construction
LastLoaded(n) ==
    [j \in 1..(IF n < MAX_CACHE THEN n ELSE MAX_CACHE) |->
        (IF n < MAX_CACHE THEN 0 ELSE n - MAX_CACHE) + j]

InitBeams ==
    \E n \in 0..MaxBeams :
    \E paths \in [1..n -> BeamPaths], outs \in [1..n -> BeamOutputs],
       active \in ActivePaths :
        /\ \A i, j \in 1..n : i # j => paths[i] # paths[j]
        /\ heap = [o \in 1..(n + 1) |->
                      IF o <= n
                      THEN NewNexusData(paths[o], outs[o])
                      ELSE NewNexusData(active,
                              [keys |-> <<"Off_Off">>, two_theta |-> 1, geom |-> <<1, 1>>])]
        /\ cache = LastLoaded(n + 1)
        /\ reduction_list = << >>
        /\ direct_beam_list = [o \in 1..n |-> o]
        /\ reduction_states = << >>
        /\ nexus_data = n + 1
        /\ active_channel = [obj |-> n + 1, key |-> "Off_Off"]
        /\ current_directory = Directory(active)
        /\ current_file_name = active
        /\ last = Call("load", active, FALSE, "False", NoRun)
        /\ batch = NoBatch

NextBeams == FindBestDirectBeam

SpecBeams == InitBeams /\ [][NextBeams]_vars

---------------------------------------------------------------------------
(* A single calculation: calculate_reflectivity and calculate_gisans for  *)
(* an active measurement, loaded last, whose configuration names no       *)
(* direct beam, one of direct_beam_list or one that is not there          *)

SingleOutputs == [keys : { << >>, <<"Off_Off">> }, two_theta : {1}, geom : { <<1, 1>> }]
Normalizations == { NoId, <<10>>, <<15>>, <<10, 15>> }

InitSingle ==
    \E n \in 0..MaxBeams :
    \E paths \in [1..n -> BeamPaths], outs \in [1..n -> SingleOutputs],
       active \in SingleOutputs, norm \in Normalizations :
        /\ \A i, j \in 1..n : i # j => paths[i] # paths[j]
        /\ heap = [o \in 1..(n + 1) |->
                      IF o <= n
                      THEN NewNexusData(paths[o], outs[o])
                      ELSE [NewNexusData(<<17>>, active) EXCEPT !.normalization = norm]]
        /\ cache = LastLoaded(n + 1)
        /\ reduction_list = << >>
        /\ direct_beam_list = [o \in 1..n |-> o]
        /\ reduction_states = << >>
        /\ nexus_data = n + 1
        /\ active_channel = set_channel(heap, n + 1, 0, NoChannel)
        /\ current_directory = Directory(<<17>>)
        /\ current_file_name = <<17>>
        /\ last = Call("load", <<17>>, FALSE, "False", NoRun)
        /\ batch = NoBatch

CalculateReflectivityAct == \E calc_ok \in BOOLEAN : CalculateReflectivity(calc_ok)

CalculateGisansAct == \E calc_ok \in BOOLEAN : CalculateGisans(calc_ok)

NextSingle == CalculateReflectivityAct \/ CalculateGisansAct

SpecSingle == InitSingle /\ [][NextSingle]_vars

---------------------------------------------------------------------------
(* The batch calculations: reduce_gisans and reduce_offspec on a          *)
(* reduction list of up to MaxReduced measurements, each with no          *)
(* normalization, the direct beam of the list or one that is not there    *)

InitReduce ==
    \E m \in 0..MaxReduced :
    \E norms \in [1..m -> { NoId, <<10>>, <<15>> }] :
        /\ heap = [o \in 1..(m + 1) |->
                      IF o = 1
                      THEN NewNexusData(<<10>>,
                              [keys |-> <<"Off_Off">>, two_theta |-> 1, geom |-> <<1, 1>>])
                      ELSE [NewNexusData(<<20 + o>>,
                              [keys |-> <<"Off_Off">>, two_theta |-> o, geom |-> <<1, 1>>])
                            EXCEPT !.normalization = norms[o - 1]]]
        /\ cache = LastLoaded(m + 1)
        /\ reduction_list = [i \in 1..m |-> i + 1]
        /\ direct_beam_list = <<1>>
        /\ reduction_states = IF m > 0 THEN <<"Off_Off">> ELSE << >>
        /\ nexus_data = m + 1
        /\ active_channel = [obj |-> m + 1, key |-> "Off_Off"]
        /\ current_directory = Directory(<<10>>)
        /\ current_file_name = heap[m + 1].file_path
        /\ last = Call("add_active_to_reduction", << >>, FALSE, "True", 0)
        /\ batch = NoBatch

ReduceGisansAct ==
    \E oks \in [1..Len(reduction_list) -> BOOLEAN] : ReduceGisans(oks)

ReduceOffspecAct ==
    \E oks \in [1..Len(reduction_list) -> BOOLEAN] : ReduceOffspec(oks)

NextReduce == ReduceGisansAct \/ ReduceOffspecAct

SpecReduce == InitReduce /\ [][NextReduce]_vars

---------------------------------------------------------------------------
(* load_data_from_reduced_file on a new DataManager: at most one direct   *)
(* beam file and up to MaxFiles data files, each of them existing or not, *)
(* with every outcome of the Loader and of the calculator                 *)

SeqsUpTo(S, n) == UNION { [1..k -> S] : k \in 0..n }

DbFiles == [kind : {"db"}, raw : { <<10>> }, exists : BOOLEAN, norm : {NoId}]
DataFiles ==
    [kind : {"data"}, raw : { <<21>>, <<22>> }, exists : BOOLEAN, norm : { <<10>> }]

LoadDataFromReducedFileAct ==
    \E dbs \in SeqsUpTo(DbFiles, 1), datas \in SeqsUpTo(DataFiles, MaxFiles) :
        LoadDataFromReducedFile(dbs \o datas)

ReducedFileLoadAct ==
    \E loader_ok \in BOOLEAN, calc_ok \in BOOLEAN :
        ReducedFileLoad(FALSE, loader_ok, calc_ok,
                        [keys |-> <<"Off_Off">>, two_theta |-> 1, geom |-> <<1, 1>>])

ReducedFileCachedAct == \E calc_ok \in BOOLEAN : ReducedFileCached(calc_ok)

NextFile ==
    \/ LoadDataFromReducedFileAct
    \/ ReducedFileMissing
    \/ ReducedFileLoadAct
    \/ ReducedFileCachedAct
    \/ ReducedFileAdd
    \/ ReducedFileDone

SpecFile == Init /\ [][NextFile]_vars

---------------------------------------------------------------------------
(* get_trim_values: a direct beam with an intensity array of up to        *)
(* MaxPoints points in direct_beam_list, and an active measurement that   *)
(* names it, names another run or names none, with or without a           *)
(* calculated reflectivity                                                *)

Intensities == {0, 1, 5, 9, 10}

InitTrim ==
    \E r \in SeqsUpTo(Intensities, MaxPoints) :
    \E s \in { <<NoId, <<1>>>>, <<<<15>>, <<1>>>>, <<<<10>>, <<1>>>>, <<<<10>>, << >>>> } :
        /\ r # << >>
        /\ heap = << [NewNexusData(<<10>>,
                          [keys |-> <<"Off_Off">>, two_theta |-> 1, geom |-> <<1, 1>>])
                      EXCEPT !.q = r, !.r = r],
                     [NewNexusData(<<17>>,
                          [keys |-> <<"Off_Off">>, two_theta |-> 1, geom |-> <<1, 1>>])
                      EXCEPT !.normalization = s[1], !.q = s[2], !.r = s[2],
                             !.cut_first_n_points = 1, !.cut_last_n_points = 1] >>
        /\ cache = LastLoaded(2)
        /\ reduction_list = << >>
        /\ direct_beam_list = <<1>>
        /\ reduction_states = << >>
        /\ nexus_data = 2
        /\ active_channel = [obj |-> 2, key |-> "Off_Off"]
        /\ current_directory = Directory(<<17>>)
        /\ current_file_name = <<17>>
        /\ last = Call("load", <<17>>, FALSE, "False", NoRun)
        /\ batch = NoBatch

NextTrim == GetTrimValues

SpecTrim == InitTrim /\ [][NextTrim]_vars

---------------------------------------------------------------------------
(* strip_overlap: a reduction list of up to MaxOverlap measurements, each *)
(* with an ascending q array, a number of points cut at its start and     *)
(* none or one cut at its end                                             *)

QArrays == { <<1>>, <<2>>, <<3>>, <<1, 2>>, <<1, 3>>, <<2, 3>> }
Trimmed ==
    { t \in [q : QArrays, cut_first : 0..1, cut_last : 0..1] : t.cut_first < Len(t.q) }

InitOverlap ==
    \E m \in 0..MaxOverlap :
    \E ts \in [1..m -> Trimmed] :
        /\ heap = [o \in 1..m |->
                      [NewNexusData(<<20 + o>>,
                          [keys |-> <<"Off_Off">>, two_theta |-> o, geom |-> <<1, 1>>])
                       EXCEPT !.q = ts[o].q, !.r = ts[o].q,
                              !.cut_first_n_points = ts[o].cut_first,
                              !.cut_last_n_points = ts[o].cut_last]]
        /\ cache = LastLoaded(m)
        /\ reduction_list = [i \in 1..m |-> i]
        /\ direct_beam_list = << >>
        /\ reduction_states = IF m > 0 THEN <<"Off_Off">> ELSE << >>
        /\ nexus_data = m
        /\ active_channel = IF m > 0 THEN [obj |-> m, key |-> "Off_Off"] ELSE NoChannel
        /\ current_directory = IF m > 0 THEN Directory(<<20 + m>>) ELSE "cwd"
        /\ current_file_name = IF m > 0 THEN <<20 + m>> ELSE << >>
        /\ last = Call("init", << >>, FALSE, "None", 0)
        /\ batch = NoBatch

NextOverlap == StripOverlap

SpecOverlap == InitOverlap /\ [][NextOverlap]_vars

---------------------------------------------------------------------------
(* determine_asymmetry_states: reduction_states of up to MaxStates        *)
(* distinct channel labels, those of the one measurement of the reduction *)
(* list, which is the active one                                          *)

Labels == {"Off_Off", "off-off", "On_On", "u", "d", "x"}

InitAsymmetry ==
    \E keys \in SeqsUpTo(Labels, MaxStates) :
        /\ \A i, j \in 1..Len(keys) : i # j => keys[i] # keys[j]
        /\ heap = IF keys = << >> THEN << >>
                  ELSE << NewNexusData(<<21>>,
                              [keys |-> keys, two_theta |-> 1, geom |-> <<1, 1>>]) >>
        /\ cache = IF keys = << >> THEN << >> ELSE <<1>>
        /\ reduction_list = cache
        /\ direct_beam_list = << >>
        /\ reduction_states = keys
        /\ nexus_data = Len(heap)
        /\ active_channel = set_channel(heap, nexus_data, 0, NoChannel)
        /\ current_directory = IF keys = << >> THEN "cwd" ELSE Directory(<<21>>)
        /\ current_file_name = IF keys = << >> THEN << >> ELSE <<21>>
        /\ last = Call("init", << >>, FALSE, "None", 0)
        /\ batch = NoBatch

NextAsymmetry == DetermineAsymmetryStates

SpecAsymmetry == InitAsymmetry /\ [][NextAsymmetry]_vars

---------------------------------------------------------------------------
(* Forced reloads: load, add_active_to_reduction and                      *)
(* add_active_to_normalization                                            *)

ReloadPaths == { <<10>>, <<10, 15>> }
ReloadOutputs == [keys : { <<"Off_Off">> }, two_theta : {1}, geom : { <<1, 1>> }]

ReloadLoad ==
    LoadCalls(MaxReload, ReloadPaths, BOOLEAN, BOOLEAN, {TRUE}, {TRUE}, ReloadOutputs)

NextReload == ReloadLoad \/ AddActiveToReduction \/ AddActiveToNormalization

SpecReload == Init /\ [][NextReload]_vars

---------------------------------------------------------------------------
(* The calculation inside load: load with every outcome of the Loader and *)
(* of the calculator, and add_active_to_normalization                     *)

CalcLoad ==
    LoadCalls(MaxCalc, { <<10>>, <<15>> }, BOOLEAN, BOOLEAN, BOOLEAN, BOOLEAN,
              ReloadOutputs)

NextCalc == CalcLoad \/ AddActiveToNormalization

SpecCalc == Init /\ [][NextCalc]_vars

---------------------------------------------------------------------------
(* The direct beam list: load, selection from the list,                   *)
(* add_active_to_normalization, remove_active_from_normalization and      *)
(* clear_direct_beam_list                                                 *)

NormLoad ==
    LoadCalls(MaxNorm, ReloadPaths, BOOLEAN, {FALSE}, {TRUE}, {TRUE}, ReloadOutputs)

NormSelect == \E index \in 0..(MaxNorm - 1) : SetActiveDataFromDirectBeamList(index)

NextNorm ==
    \/ NormLoad
    \/ NormSelect
    \/ AddActiveToNormalization
    \/ RemoveActiveFromNormalization
    \/ ClearDirectBeamList

SpecNorm == Init /\ [][NextNorm]_vars

---------------------------------------------------------------------------
(* Progress: load on a DataManager with a direct beam, and reduce_gisans  *)
(* on a reduction list of up to MaxGisans measurements or of one more     *)
(* than a hundred, each normalized by the direct beam of the list         *)

InitProgress ==
    \E m \in (0..MaxGisans) \cup {COMPLETE + 1}, db \in ReloadPaths :
        /\ heap = [o \in 1..(m + 1) |->
                      IF o = 1
                      THEN NewNexusData(db,
                              [keys |-> <<"Off_Off">>, two_theta |-> 1, geom |-> <<1, 1>>])
                      ELSE [NewNexusData(<<20 + o>>,
                              [keys |-> <<"Off_Off">>, two_theta |-> o, geom |-> <<1, 1>>])
                            EXCEPT !.normalization = db]]
        /\ cache = LastLoaded(m + 1)
        /\ reduction_list = [i \in 1..m |-> i + 1]
        /\ direct_beam_list = <<1>>
        /\ reduction_states = IF m > 0 THEN <<"Off_Off">> ELSE << >>
        /\ nexus_data = m + 1
        /\ active_channel = [obj |-> m + 1, key |-> "Off_Off"]
        /\ current_directory = Directory(heap[m + 1].file_path)
        /\ current_file_name = heap[m + 1].file_path
        /\ last = Call("init", << >>, FALSE, "None", 0)
        /\ batch = NoBatch

\* the calculator's outcomes: any for the first MaxGisans measurements of
\* the list, one and the same for those that follow
ProgressOks ==
    { [i \in 1..Len(reduction_list) |-> IF i <= MaxGisans THEN first[i] ELSE rest] :
        first \in [1..MaxGisans -> BOOLEAN], rest \in BOOLEAN }

ProgressLoad ==
    /\ reduction_list = << >>
    /\ LoadCalls(MaxGisans, { <<10>>, <<17>> }, BOOLEAN, BOOLEAN, BOOLEAN, BOOLEAN,
                 ReloadOutputs)

ProgressReduce == \E oks \in ProgressOks : ReduceGisans(oks)

NextProgress == ProgressLoad \/ ProgressReduce

SpecProgress == InitProgress /\ [][NextProgress]_vars

---------------------------------------------------------------------------
(* _find_direct_beam: the calculations of an active measurement with a    *)
(* direct beam list of up to MaxBeams measurements, some of them without  *)
(* a channel, several of them of the same run                             *)

FindPaths == { <<10>>, <<15>>, <<10, 15>> }

InitFind ==
    \E n \in 0..MaxBeams :
    \E paths \in [1..n -> FindPaths], outs \in [1..n -> SingleOutputs],
       active \in SingleOutputs, norm \in Normalizations :
        /\ heap = [o \in 1..(n + 1) |->
                      IF o <= n
                      THEN NewNexusData(paths[o], outs[o])
                      ELSE [NewNexusData(<<17>>, active)
                            EXCEPT !.normalization =
                                IF active.keys = << >> THEN NoId ELSE norm]]
        /\ cache = LastLoaded(n + 1)
        /\ reduction_list = << >>
        /\ direct_beam_list = [o \in 1..n |-> o]
        /\ reduction_states = << >>
        /\ nexus_data = n + 1
        /\ active_channel = set_channel(heap, n + 1, 0, NoChannel)
        /\ current_directory = Directory(<<17>>)
        /\ current_file_name = <<17>>
        /\ last = Call("load", <<17>>, FALSE, "False", NoRun)
        /\ batch = NoBatch

NextFind == CalculateReflectivityAct \/ CalculateGisansAct

SpecFind == InitFind /\ [][NextFind]_vars

---------------------------------------------------------------------------
(* Cache hits: load of one of three files, with the cache full after two, *)
(* add_active_to_reduction and add_active_to_normalization.  The matcher  *)
(* is asked for in the loads of a cached path only.                       *)

HitPaths == { <<10>>, <<15>>, <<20>> }

HitLoad ==
    LoadCalls(MaxHit, HitPaths, BOOLEAN, {FALSE}, {TRUE}, {TRUE}, ReloadOutputs)

\* load with force=False of a path of the cache, with
\* configuration.match_direct_beam set
HitWithMatcher ==
    /\ \E raw \in HitPaths, out \in ReloadOutputs :
          /\ CacheIndex(heap, cache, FilePath(raw)) # None
          /\ Load(raw, FALSE, TRUE, TRUE, TRUE, out)
    /\ UNCHANGED batch

NextHit ==
    \/ HitWithMatcher
    \/ HitLoad
    \/ AddActiveToReduction
    \/ AddActiveToNormalization

SpecHit == Init /\ [][NextHit]_vars

---------------------------------------------------------------------------
(* Eviction and reload: load of one of three files, four times at most,   *)
(* with the cache full after two, selection from the reduction list and   *)
(* add_active_to_reduction                                                *)

EvictLoad ==
    LoadCalls(MaxEvict, HitPaths, BOOLEAN, {FALSE}, {TRUE}, {TRUE}, ReloadOutputs)

EvictSelect == \E index \in 0..(MaxEvict - 1) : SetActiveDataFromReductionList(index)

NextEvict == EvictLoad \/ EvictSelect \/ AddActiveToReduction

SpecEvict == Init /\ [][NextEvict]_vars

---------------------------------------------------------------------------
(* Every call of the DataManager.  The calls are synchronous: while       *)
(* load_data_from_reduced_file runs, no other call starts.                *)

Running == batch.pc \in {"file", "cached", "add"}

Next ==
    \/ ~Running /\ LoadAct
    \/ ~Running /\ ClearCacheAct
    \/ ~Running /\ SetActiveDataFromReductionListAct
    \/ ~Running /\ SetActiveDataFromDirectBeamListAct
    \/ ~Running /\ SetChannelAct
    \/ ~Running /\ AddActiveToReduction
    \/ ~Running /\ AddActiveToNormalization
    \/ ~Running /\ RemoveActiveFromNormalization
    \/ ~Running /\ ClearDirectBeamList
    \/ ~Running /\ FindBestDirectBeam
    \/ ~Running /\ CalculateReflectivityAct
    \/ ~Running /\ CalculateGisansAct
    \/ ~Running /\ ReduceGisansAct
    \/ ~Running /\ ReduceOffspecAct
    \/ ~Running /\ GetTrimValues
    \/ ~Running /\ StripOverlap
    \/ ~Running /\ DetermineAsymmetryStates
    \/ NextFile

Spec == Init /\ [][Next]_vars

---------------------------------------------------------------------------
(* Properties *)

\* the two-theta values along the list are non-decreasing
Sorted(h, rl) ==
    \A i \in 1..(Len(rl) - 1) : TwoTheta(h[rl[i]]) <= TwoTheta(h[rl[i + 1]])

\* the channel-label set of a measurement
KeySet(m) == Range(m.keys)

\* C1: in every state reachable by load (forced or not) and clear_cache, the
\* cache holds at most MAX_CACHE measurements.
C1_CacheBounded == Len(cache) <= MAX_CACHE

\* a full cache from which a measurement has been evicted
C1_Witness ==
    /\ Len(cache) = MAX_CACHE
    /\ last.op = "load" /\ last.val = "False"
    /\ Len(heap) > MAX_CACHE
    /\ \A o \in 1..Len(heap) : o \in Range(cache) \/ o < cache[1]

\* C2: from the empty cache, after loads of pairwise distinct paths the cache
\* holds the MAX_CACHE most recently loaded measurements (all of them while
\* there are fewer), in load order; the older ones are the ones evicted.
C2_KeepsMostRecent == cache = LastLoaded(Len(heap))

\* MAX_CACHE + 2 distinct paths loaded, the two oldest evicted
C2_Witness ==
    /\ Len(heap) = MAX_CACHE + 2
    /\ Len(cache) = MAX_CACHE
    /\ cache[1] = Len(heap) - MAX_CACHE + 1
    /\ \A i, j \in 1..Len(heap) : i # j => heap[i].file_path # heap[j].file_path

\* C3: a load with force=False that returned is_from_cache=False, followed at
\* once by a load of the same path with force=False: the second returns
\* is_from_cache=True, the active measurement is the same object, and no
\* NexusData is constructed (the Loader is not invoked again).
C3_SecondLoadFromCache ==
    [][ ( /\ last.op = "load" /\ last.val = "False" /\ ~last.force
          /\ last'.op = "load" /\ ~last'.force
          /\ last'.path = last.path )
        => ( /\ last'.val = "True"
             /\ nexus_data' = nexus_data
             /\ heap' = heap ) ]_vars

\* the second of two loads of a merged path has returned from the cache the
\* object the first one constructed
C3_Witness ==
    /\ last.op = "load" /\ last.val = "True" /\ ~last.force
    /\ Len(last.path) = 2
    /\ nexus_data = Len(heap)
    /\ heap[nexus_data].file_path = last.path

\* C4: after any sequence of add_active_to_reduction calls, the two-theta
\* values along reduction_list are non-decreasing.
C4_InsertionsSorted == Sorted(heap, reduction_list)

\* three measurements in the list, one of them inserted before an older one
C4_Witness ==
    /\ Len(reduction_list) = 3
    /\ \E i, j \in 1..3 :
          /\ i < j
          /\ reduction_list[i] > reduction_list[j]
          /\ TwoTheta(heap[reduction_list[i]]) < TwoTheta(heap[reduction_list[j]])

\* C5: in every state reachable by load (forced reloads included), selection
\* changes and add_active_to_reduction, reduction_list is ordered by
\* non-decreasing two-theta.  Stated for the lists whose measurements all
\* have a channel to read the two-theta from.
C5_AlwaysSorted ==
    (\A i \in 1..Len(reduction_list) : HasWorkspace(heap[reduction_list[i]]))
    => Sorted(heap, reduction_list)

\* C6: add_active_to_reduction returns False and leaves reduction_list and
\* reduction_states unchanged whenever the active measurement is already in
\* the list, or the list is non-empty and the channel-label set of the active
\* measurement differs from reduction_states.
C6_RejectedAddChangesNothing ==
    [][ ( /\ last'.op = "add_active_to_reduction"
          /\ nexus_data # None
          /\ \/ nexus_data \in Range(reduction_list)
             \/ /\ reduction_list # << >>
                /\ KeySet(heap[nexus_data]) # Range(reduction_states) )
        => ( /\ last'.val = "False"
             /\ reduction_list' = reduction_list
             /\ reduction_states' = reduction_states ) ]_vars

\* an add rejected for a measurement with as many channels as reduction_states
\* but other labels
C6_Witness ==
    /\ last.op = "add_active_to_reduction" /\ last.val = "False"
    /\ nexus_data # None
    /\ nexus_data \notin Range(reduction_list)
    /\ reduction_list # << >>
    /\ Len(heap[nexus_data].keys) = Len(reduction_states)
    /\ KeySet(heap[nexus_data]) # Range(reduction_states)

\* C7: whenever reduction_list is non-empty, every measurement in it has the
\* channel-label set reduction_states, forced reloads included.
C7_MembersShareStates ==
    reduction_list # << >> =>
        \A i \in 1..Len(reduction_list) :
            KeySet(heap[reduction_list[i]]) = Range(reduction_states)

\* the entries of direct_beam_list with a channel that satisfy the match
\* predicate for the active channel
Matching(skip_slits) ==
    { i \in 1..Len(direct_beam_list) :
        /\ direct_beam_list[i] # None
        /\ Len(heap[direct_beam_list[i]].keys) > 0
        /\ direct_beam_match(heap[active_channel.obj], heap[direct_beam_list[i]],
                             skip_slits) }

\* the entries whose run identifier is an integer
IntegerEntries ==
    { i \in 1..Len(direct_beam_list) :
        direct_beam_list[i] # None /\ IsInt(Number(heap[direct_beam_list[i]])) }

RunOf(i) == IntOf(Number(heap[direct_beam_list[i]]))

Distance(i) == Abs(RunOf(i) - FirstRun(Number(heap[active_channel.obj])))

\* the entry of S closest in run number to the active channel, the first of
\* the list among those at the same distance
Nearest(S) ==
    CHOOSE i \in S :
        \A j \in S : Distance(i) < Distance(j) \/ (Distance(i) = Distance(j) /\ i <= j)

\* C8: when entries with a channel satisfy the match predicate with
\* skip_slits=False (their run numbers being integers), find_best_direct_beam
\* selects the run number of the one among them that is closest to the run
\* number of the active channel, the first of the list on equal distance.
C8_StrictSelectsNearest ==
    ( /\ last.op = "find_best_direct_beam"
      /\ active_channel # NoChannel
      /\ Matching(FALSE) # {}
      /\ Matching(FALSE) \subseteq IntegerEntries )
    => last.num = RunOf(Nearest(Matching(FALSE)))

\* C9: when no entry satisfies the match predicate with skip_slits=False,
\* find_best_direct_beam selects the run number of the entry closest to the
\* active channel among those that satisfy it with skip_slits=True, and
\* selects nothing only if there is none.  Stated for lists whose run
\* identifiers are all integers.
C9_RelaxedSelectsNearest ==
    ( /\ last.op = "find_best_direct_beam"
      /\ active_channel # NoChannel
      /\ IntegerEntries = 1..Len(direct_beam_list)
      /\ Matching(FALSE) = {} )
    => IF Matching(TRUE) # {}
       THEN last.num = RunOf(Nearest(Matching(TRUE)))
       ELSE last.num = NoRun /\ last.val = "False"

\* C10: find_best_direct_beam does not raise on the type of a run identifier:
\* with integer and non-integer identifiers in direct_beam_list it returns.
C10_NoRaiseOnIdentifier ==
    last.op = "find_best_direct_beam" => last.val # "ValueError"

\* the number of entries of s equal to x
Count(s, x) == Cardinality({ i \in 1..Len(s) : s[i] = x })

\* C11: a load with force=True of a path whose cached measurement sits in
\* reduction_list and/or direct_beam_list, the Loader having produced the
\* fresh measurement, ends with the fresh measurement at the indices of the
\* stale one, the lengths and the other positions of both lists unchanged,
\* the stale measurement absent from the cache and from both lists, and the
\* fresh one in the cache exactly once.  Stated for direct beam lists
\* without a None entry.
C11_ForcedReloadSubstitutes ==
    [][ LET i == CacheIndex(heap, cache, last'.path)
            fresh == Len(heap')
        IN ( /\ last'.op = "load" /\ last'.force
             /\ Len(heap') = Len(heap) + 1
             /\ None \notin Range(direct_beam_list)
             /\ i # None
             /\ cache[i] \in Range(reduction_list) \cup Range(direct_beam_list) )
           => ( /\ Len(reduction_list') = Len(reduction_list)
                /\ \A k \in 1..Len(reduction_list) :
                      reduction_list'[k] =
                          IF reduction_list[k] = cache[i] THEN fresh
                          ELSE reduction_list[k]
                /\ Len(direct_beam_list') = Len(direct_beam_list)
                /\ \A k \in 1..Len(direct_beam_list) :
                      direct_beam_list'[k] =
                          IF direct_beam_list[k] = cache[i] THEN fresh
                          ELSE direct_beam_list[k]
                /\ cache[i] \notin Range(cache') \cup Range(reduction_list')
                                  \cup Range(direct_beam_list')
                /\ Count(cache', fresh) = 1 ) ]_vars

\* C12: if the Loader succeeds and the reflectivity calculation fails in a
\* load not served from the cache, load returns normally with False, the new
\* measurement is the active one and it is in the cache.
C12_CalculationFailureCaught ==
    ( /\ last.op = "load"
      /\ last.log # << >>
      /\ last.log[1].out # "ok" )
    => ( /\ last.val = "False"
         /\ nexus_data = Len(heap)
         /\ last.log[1].nd = nexus_data
         /\ heap[nexus_data].file_path = last.path
         /\ Count(cache, nexus_data) = 1 )

\* a forced reload whose calculation failed: the fresh measurement is
\* active, cached and without reflectivity
C12_Witness ==
    /\ last.op = "load" /\ last.force
    /\ last.log # << >>
    /\ last.log[1].out = "CalculationError"
    /\ last.val = "False"
    /\ nexus_data = Len(heap)
    /\ nexus_data \in Range(cache)
    /\ heap[nexus_data].q = << >>

\* the direct beam of the active measurement cannot be resolved: no
\* normalization is configured, or no entry of direct_beam_list matches it
Unresolved ==
    /\ nexus_data # None
    /\ find_direct_beam(heap, direct_beam_list, nexus_data).err = ""
    /\ find_direct_beam(heap, direct_beam_list, nexus_data).beam = None

\* C13 as stated: a single calculate_reflectivity or calculate_gisans call
\* for a measurement whose direct beam cannot be resolved fails with an
\* error surfaced to the caller and never invokes the calculator.
C13_MissingDirectBeamFails ==
    ( /\ last.op \in {"calculate_reflectivity", "calculate_gisans"}
      /\ Unresolved )
    => ( /\ last.val # "None"
         /\ ~Invoked(last.log[1]) )

\* C13 amended: with an unresolvable direct beam calculate_gisans raises
\* RuntimeError and does not invoke the calculator, while
\* calculate_reflectivity raises nothing of its own and invokes the
\* calculator with direct_beam=None.
C13_OnlyGisansFails ==
    ( /\ last.op \in {"calculate_reflectivity", "calculate_gisans"}
      /\ Unresolved )
    => IF last.op = "calculate_gisans"
       THEN last.val = "RuntimeError" /\ ~Invoked(last.log[1])
       ELSE /\ Invoked(last.log[1])
            /\ last.log[1].beam = None
            /\ last.val \in {"None", "CalculationError"}

\* calculate_gisans has raised for a measurement whose configured
\* normalization matches no entry of a non-empty direct_beam_list
C13_Witness ==
    /\ last.op = "calculate_gisans" /\ last.val = "RuntimeError"
    /\ Unresolved
    /\ heap[nexus_data].normalization # NoId
    /\ Len(heap[nexus_data].keys) > 0
    /\ direct_beam_list # << >>

\* C14: reduce_gisans and reduce_offspec attempt the calculation for every
\* measurement of reduction_list, in list order, whichever of the earlier
\* ones failed (calculator error or missing direct beam), and return
\* normally: no failure of one measurement reaches the caller.
C14_BatchAttemptsAll ==
    last.op \in {"reduce_gisans", "reduce_offspec"}
    => ( /\ last.val = "None"
         /\ Len(last.log) = Len(reduction_list)
         /\ \A i \in 1..Len(reduction_list) : last.log[i].nd = reduction_list[i] )

\* reduce_gisans has gone through three measurements: the first without a
\* direct beam, the second with a failing calculator, the third computed
C14_Witness ==
    /\ last.op = "reduce_gisans"
    /\ Len(reduction_list) = 3
    /\ Len(last.log) = 3
    /\ last.log[1].out = "RuntimeError"
    /\ last.log[2].out = "CalculationError"
    /\ last.log[3].out = "ok"

\* C15: in load_data_from_reduced_file a failure on one listed file (the
\* file is missing, or the Loader fails on it) does not abort the batch:
\* the call is not left by the exception of the Loader, and once it is over
\* every listed file has been looked at.
C15_FileFailureDoesNotAbort ==
    /\ ~(batch.pc = "raised" /\ last.op = "load" /\ last.val = "LoadError")
    /\ batch.pc = "done" => batch.n_loaded = Len(batch.files)

\* r[i] is at least 5% of max(r), i counted from 0
AtLeastFivePercent(r, i) == 20 * r[i + 1] >= MaxOf(r)

\* the smallest and the largest index of r, counted from 0, with
\* r[i] >= 5% of max(r)
FirstAbove(r) ==
    CHOOSE i \in 0..(Len(r) - 1) :
        AtLeastFivePercent(r, i) /\ \A j \in 0..(i - 1) : ~AtLeastFivePercent(r, j)
LastAbove(r) ==
    CHOOSE i \in 0..(Len(r) - 1) :
        /\ AtLeastFivePercent(r, i)
        /\ \A j \in (i + 1)..(Len(r) - 1) : ~AtLeastFivePercent(r, j)

\* the direct beam measurement of the active channel, None if none
ActiveDirectBeam(h) ==
    IF find_direct_beam_of_channel(h, direct_beam_list, active_channel).err = ""
    THEN find_direct_beam_of_channel(h, direct_beam_list, active_channel).beam
    ELSE None

\* get_trim_values has returned and stored the cuts of the array r
TrimmedTo(r) ==
    /\ last'.pair = <<FirstAbove(r), Len(r) - 1 - LastAbove(r)>>
    /\ heap'[nexus_data].cut_first_n_points = FirstAbove(r)
    /\ heap'[nexus_data].cut_last_n_points = Len(r) - 1 - LastAbove(r)
    /\ r = <<1, 5, 10, 9, 1>> => last'.pair = <<0, 0>>
    /\ r = <<0, 0, 10, 0, 0>> => last'.pair = <<2, 2>>

\* get_trim_values has returned none and changed no configuration
NotTrimmed == last'.val = "None" /\ last'.pair = << >> /\ heap' = heap

\* C16 as stated: for a resolvable direct beam with intensity array r of
\* length n, get_trim_values returns and stores cut_first = the smallest
\* index i with r[i] >= 5% of max(r) and cut_last = n - 1 - the largest such
\* index; if no direct beam is resolvable it returns none and changes no
\* configuration.
C16_TrimValues ==
    [][ last'.op = "get_trim_values"
        => IF ActiveDirectBeam(heap) # None
           THEN TrimmedTo(heap[ActiveDirectBeam(heap)].r)
           ELSE NotTrimmed ]_vars

\* C16 amended: the values are returned and stored when the direct beam is
\* resolvable and the active channel has a calculated reflectivity (its q is
\* not None); in every other case get_trim_values returns none and changes
\* no configuration.
C16_TrimValuesWithReflectivity ==
    [][ last'.op = "get_trim_values"
        => IF ActiveDirectBeam(heap) # None /\ heap[active_channel.obj].q # << >>
           THEN TrimmedTo(heap[ActiveDirectBeam(heap)].r)
           ELSE NotTrimmed ]_vars

\* the cuts (2, 2) returned and stored for the direct beam [0, 0, 10, 0, 0]
C16_Witness ==
    /\ last.op = "get_trim_values"
    /\ last.pair = <<2, 2>>
    /\ heap[1].r = <<0, 0, 10, 0, 0>>
    /\ heap[nexus_data].cut_first_n_points = 2
    /\ heap[nexus_data].cut_last_n_points = 2

\* the q of measurement nd at its cut_first_n_points index
StartQ(h, nd) == h[nd].q[h[nd].cut_first_n_points + 1]

\* C17: after strip_overlap on a reduction_list of at least two measurements
\* with ascending q arrays, for every adjacent pair (i, i+1) the points of
\* measurement i that remain after dropping its last cut_last_n_points all
\* have q strictly below the q of measurement i+1 at its cut_first_n_points
\* index; a measurement with no point at or above that q keeps its
\* cut_last_n_points; with fewer than two measurements nothing changes.
C17_NoOverlapLeft ==
    [][ last'.op = "strip_overlap"
        => IF Len(reduction_list) < 2 THEN heap' = heap
           ELSE \A i \in 1..(Len(reduction_list) - 1) :
                  LET a == reduction_list[i]
                      limit == StartQ(heap', reduction_list[i + 1])
                  IN /\ \A k \in 1..(Len(heap'[a].q) - heap'[a].cut_last_n_points) :
                           heap'[a].q[k] < limit
                     /\ (\A k \in 1..Len(heap[a].q) : heap[a].q[k] < limit)
                           => heap'[a].cut_last_n_points = heap[a].cut_last_n_points
                     /\ heap'[a].q = heap[a].q
                     /\ heap'[a].cut_first_n_points = heap[a].cut_first_n_points ]_vars

\* three measurements stripped: the first has lost both of its points to the
\* second, the second has kept the one cut it had
C17_Witness ==
    /\ last.op = "strip_overlap" /\ last.val = "None"
    /\ Len(reduction_list) = 3
    /\ Len(heap[reduction_list[1]].q) = 2
    /\ heap[reduction_list[1]].cut_last_n_points = 2
    /\ heap[reduction_list[2]].cut_last_n_points = 1
    /\ \A k \in 1..Len(heap[reduction_list[2]].q) :
          heap[reduction_list[2]].q[k] < StartQ(heap, reduction_list[3])

\* the label matches the off-off (on-on) naming convention
OffOff(k) == Lower(k) \in {"off_off", "off-off"}
OnOn(k) == Lower(k) \in {"on_on", "on-on"}

\* exactly one of the two labels of reduction_states matches off-off
OneOffOff ==
    /\ Len(reduction_states) = 2
    /\ OffOff(reduction_states[1]) # OffOff(reduction_states[2])

\* C18 as stated: with exactly two channel labels, determine_asymmetry_states
\* returns as "plus" the label that does not match the off-off naming
\* convention and as "minus" the other label.
C18_PlusIsNotOffOff ==
    (last.op = "determine_asymmetry_states" /\ OneOffOff)
    => ( /\ ~OffOff(last.pair[1])
         /\ OffOff(last.pair[2])
         /\ {last.pair[1], last.pair[2]} = Range(reduction_states) )

\* C18 amended: with exactly two channel labels, "plus" is the first label
\* if it matches the off-off naming convention and the second label
\* otherwise, and "minus" is the other label; when exactly one of the two
\* matches the convention, that one is "plus".
C18_PlusIsOffOff ==
    (last.op = "determine_asymmetry_states" /\ Len(reduction_states) = 2)
    => ( /\ last.pair = IF OffOff(reduction_states[1])
                        THEN <<reduction_states[1], reduction_states[2]>>
                        ELSE <<reduction_states[2], reduction_states[1]>>
         /\ OneOffOff => OffOff(last.pair[1]) /\ ~OffOff(last.pair[2]) )

\* the states returned for an on-on label followed by an off-off label
C18_Witness ==
    /\ last.op = "determine_asymmetry_states"
    /\ reduction_states = <<"On_On", "Off_Off">>
    /\ last.pair = <<"Off_Off", "On_On">>

\* the labels of reduction_states that satisfy P, in a set
NamedOffOff == { k \in Range(reduction_states) : OffOff(k) }
NamedOnOn == { k \in Range(reduction_states) : OnOn(k) }
LabelledPlus == { k \in Range(reduction_states) : cross_section_label(k) = "++" }
LabelledMinus == { k \in Range(reduction_states) : cross_section_label(k) = "--" }

\* C19: with more than two channel labels, determine_asymmetry_states
\* returns an off-off and an on-on label as (plus, minus) when both are
\* present, wherever they sit; otherwise the channels labelled "++" and
\* "--" when both are present; and the first and the last label of
\* reduction_states only when neither pair is found.
C19_HeuristicsInOrder ==
    (last.op = "determine_asymmetry_states" /\ Len(reduction_states) > 2)
    => IF NamedOffOff # {} /\ NamedOnOn # {}
       THEN last.pair[1] \in NamedOffOff /\ last.pair[2] \in NamedOnOn
       ELSE IF LabelledPlus # {} /\ LabelledMinus # {}
       THEN last.pair[1] \in LabelledPlus /\ last.pair[2] \in LabelledMinus
       ELSE last.pair = <<reduction_states[1],
                          reduction_states[Len(reduction_states)]>>

\* C20: after load and the selection calls, the active channel is a channel
\* of the active measurement or there is no active channel: in no reachable
\* state does it belong to another measurement.
C20_ActiveChannelOfActive ==
    active_channel # NoChannel => active_channel.obj = nexus_data

\* C21: find_best_direct_beam, when an entry of direct_beam_list matches in
\* one of the two passes, sets the normalization of the active measurement
\* to the run identifier it selected; when no entry matches in either pass it
\* returns False and the measurements, the cache, the lists and the active
\* selection are all as before the call.
C21_SelectsOrLeaves ==
    [][ ( /\ last'.op = "find_best_direct_beam"
          /\ nexus_data # None
          /\ active_channel # NoChannel )
        => IF Matching(TRUE) = {}
           THEN /\ last'.val = "False"
                /\ UNCHANGED <<heap, cache, reduction_list, direct_beam_list,
                               reduction_states, nexus_data, active_channel>>
           ELSE /\ last'.val \in {"True", "False"}
                /\ last'.num # NoRun
                /\ heap'[nexus_data].normalization = <<last'.num>>
                /\ UNCHANGED <<cache, reduction_list, direct_beam_list,
                               reduction_states, nexus_data, active_channel>> ]_vars

\* the list s without its entry i
Without(s, i) == [j \in 1..(Len(s) - 1) |-> IF j < i THEN s[j] ELSE s[j + 1]]

\* no object is at two positions of the list s
NoDuplicates(s) == \A i, j \in 1..Len(s) : s[i] = s[j] => i = j

\* C22: direct_beam_list never holds the same measurement twice:
\* add_active_to_normalization appends the active measurement and returns
\* True if it is not in the list, and returns False and leaves the list as it
\* is otherwise; remove_active_from_normalization removes the active
\* measurement and returns the (0-based) index it had, the other entries
\* keeping their order, or returns -1 and leaves the list as it is if the
\* active measurement is not in it.
C22_NoDuplicateBeams ==
    [][ /\ NoDuplicates(direct_beam_list')
        /\ last'.op = "add_active_to_normalization"
           => IF \E i \in 1..Len(direct_beam_list) : direct_beam_list[i] = nexus_data
              THEN last'.val = "False" /\ direct_beam_list' = direct_beam_list
              ELSE /\ last'.val = "True"
                   /\ direct_beam_list' = Append(direct_beam_list, nexus_data)
        /\ last'.op = "remove_active_from_normalization"
           => IF \E i \in 1..Len(direct_beam_list) : direct_beam_list[i] = nexus_data
              THEN \E i \in 1..Len(direct_beam_list) :
                      /\ direct_beam_list[i] = nexus_data
                      /\ last'.num = i - 1
                      /\ direct_beam_list' = Without(direct_beam_list, i)
              ELSE last'.num = -1 /\ direct_beam_list' = direct_beam_list ]_vars

\* a second add of the active measurement, already in a list of two, was
\* refused
C22_Witness ==
    /\ last.op = "add_active_to_normalization"
    /\ last.val = "False"
    /\ Len(direct_beam_list) >= 2
    /\ nexus_data # None
    /\ Contains(direct_beam_list, nexus_data)

\* the reported values never decrease
NonDecreasing(p) == \A k \in 1..(Len(p) - 1) : Leq(p[k], p[k + 1])

\* the entries of the reduction list that were reduced, log being the
\* attempts of the call
Succeeded(log) == { i \in 1..Len(log) : log[i].out = "ok" }

SameRun(a, b) == IF IsInt(a) /\ IsInt(b) THEN IntOf(a) = IntOf(b) ELSE a = b

\* the entries of direct_beam_list whose run number is the normalization of
\* the active measurement
NamedEntries ==
    { i \in 1..Len(direct_beam_list) :
        SameRun(Number(heap[direct_beam_list[i]]), heap[nexus_data].normalization) }

\* those of them that have a channel
NamedWithChannel ==
    { i \in NamedEntries : Len(heap[direct_beam_list[i]].keys) >= 1 }

\* _find_direct_beam was called for the active measurement: what it returned
\* is the beam of the first attempt of the call
FoundFor == last.op \in {"calculate_reflectivity", "calculate_gisans"}

Cached(file_path) ==
    \E k \in 1..Len(cache) : heap[cache[k]].file_path = file_path

\* the entries of the list s are in the order of their construction
InsertionOrder(s) == \A j, k \in 1..Len(s) : j < k => s[j] < s[k]

\* C25: a load with force=False of a path of the cache changes the active
\* measurement, the active channel, the current directory and the current
\* file name only: the measurements, the cache and its order, reduction_list,
\* direct_beam_list and reduction_states are as before, no measurement is
\* constructed by the Loader, no normalization is set by the matcher and no
\* calculation is attempted.  The cache stays in the order of insertion, so
\* that the entry at the eviction end is the oldest one.
C25_CacheHitFrame ==
    [][ /\ ( /\ last'.op = "load"
             /\ ~last'.force
             /\ Cached(last'.path) )
           => /\ UNCHANGED <<heap, cache, reduction_list, direct_beam_list,
                             reduction_states>>
              /\ last'.val = "True"
              /\ last'.log = << >>
              /\ last'.num = NoRun
              /\ nexus_data' \in Range(cache)
              /\ heap[nexus_data'].file_path = last'.path
              /\ current_file_name' = last'.path
        /\ InsertionOrder(cache') ]_vars

\* a hit on the oldest entry of a full cache, with both lists filled
C25_Witness ==
    /\ last.op = "load"
    /\ last.val = "True"
    /\ Len(cache) = MAX_CACHE
    /\ nexus_data = cache[1]
    /\ reduction_list # << >>
    /\ direct_beam_list # << >>

\* C26: in every state reached by loads (forced or not, with evictions),
\* selections and add_active_to_reduction, no two distinct measurements of
\* reduction_list have the same file path.
C26_OneMeasurementPerPath ==
    \A j, k \in 1..Len(reduction_list) :
        heap[reduction_list[j]].file_path = heap[reduction_list[k]].file_path
            => reduction_list[j] = reduction_list[k]

\* C27: when the Loader fails during a load, forced or not, the failure
\* leaves load and the cache, reduction_list, direct_beam_list, the active
\* measurement and the active channel are as before the call.
C27_FailedLoadChangesNothing ==
    [][ (last'.op = "load" /\ last'.val = "LoadError")
        => UNCHANGED <<cache, reduction_list, direct_beam_list, nexus_data,
                       active_channel>> ]_vars

====
